---- MODULE Spec2Model ----
(***************************************************************************)
(* Model of the clustering engine of scientific-articles-search:           *)
(*   backend/publication_clustering.py  (PublicationClustering)            *)
(*   backend/adaptive_clustering.py     (AdaptiveClusteringOptimizer)      *)
(*                                                                         *)
(* Abstractions.                                                           *)
(*  - A document id is a natural number; 0 stands for every falsy id       *)
(*    (None, "").  Metadata (title, keywords, year) and the 2-D display    *)
(*    projection are left out: they never influence labels or ordering.    *)
(*  - A numpy vector v/|v| is kept as [num |-> v, den2 |-> v.v]; the zero   *)
(*    vector is [num |-> <<0,..,0>>, den2 |-> 1].                          *)
(*  - scikit-learn / hdbscan are a deterministic library "lib": each fit   *)
(*    and each metric is a fixed function of (seed, input), the seed being *)
(*    chosen once per behaviour.  Scores are small integers (silhouette in *)
(*    tenths); normalised scores are exact fractions over a common         *)
(*    denominator, so floating-point rounding is not modelled.             *)
(***************************************************************************)
EXTENDS Integers, Sequences, FiniteSets, TLC

VARIABLES
    vector_cache,     \* PublicationClustering._vector_cache
    metrics_history,  \* PublicationClustering.metrics_history (NoHistory = attribute unset)
    scores_history,   \* AdaptiveClusteringOptimizer.scores_history
    lib,              \* the installed numeric libraries (environment)
    call,             \* arguments of the most recent cluster_publications / optimize_n_clusters call
    result,           \* what that call returned or raised
    repeated          \* TRUE when that call had the arguments of the call before it

vars == <<vector_cache, metrics_history, scores_history, lib, call, result, repeated>>

----------------------------------------------------------------------------
(* Bounds of the model *)

Dim      == 2    \* embedding dimension of the engine instance
NumIds   == 2    \* ids 1..NumIds carry arbitrary content vectors
MaxFill  == 15   \* ids above NumIds carry well-formed vectors ("filler" documents)
NumSeeds == 4    \* number of distinct library behaviours

----------------------------------------------------------------------------
(* Small arithmetic helpers *)

Min2(a, b) == IF a <= b THEN a ELSE b
Max2(a, b) == IF a >= b THEN a ELSE b

RECURSIVE ISqrt(_)
\* int(np.sqrt(n)) for n >= 0
ISqrt(n) == IF n <= 0 THEN 0
            ELSE LET r == ISqrt(n - 1) IN IF (r + 1) * (r + 1) <= n THEN r + 1 ELSE r

RECURSIVE SumSeq(_)
SumSeq(s) == IF s = <<>> THEN 0 ELSE Head(s) + SumSeq(Tail(s))

RECURSIVE MaxSeq(_)
MaxSeq(s) == IF Len(s) = 1 THEN s[1] ELSE Max2(Head(s), MaxSeq(Tail(s)))

RECURSIVE MinSeq(_)
MinSeq(s) == IF Len(s) = 1 THEN s[1] ELSE Min2(Head(s), MinSeq(Tail(s)))

\* mutant: the index of the last maximal element
ArgMaxLast(s) == (CHOOSE i \in 1..Len(s) :
                     /\ \A j \in 1..Len(s) : s[j] <= s[i]
                     /\ \A j \in (i + 1)..Len(s) : s[j] < s[i]) - 1

\* np.argmax: 0-based index of the first maximal element
ArgMax(s) == (CHOOSE i \in 1..Len(s) :
                 /\ \A j \in 1..Len(s) : s[j] <= s[i]
                 /\ \A j \in 1..(i - 1) : s[j] < s[i]) - 1

\* a sequence given as a function, evaluated once into a tuple
Tup(f) == f \o <<>>

\* range(lo, hi + 1) as a sequence
RangeSeq(lo, hi) == Tup([i \in 1..Max2(0, hi - lo + 1) |-> lo + i - 1])

SeqToSet(s) == {s[i] : i \in 1..Len(s)}

\* np.zeros(n) used as a label array
ZeroLabels(n) == Tup([i \in 1..n |-> 0])

----------------------------------------------------------------------------
(* Documents and content vectors *)

NaN == -1           \* encoding of a NaN component (real components are >= 0)
EmptyId == 0        \* a falsy id: None or ""

\* combined_embedding values a caller can send
AbsentVec  == [tag |-> "none",   elems |-> <<>>]
ScalarVec  == [tag |-> "scalar", elems |-> <<>>]
ArrayVec(e) == [tag |-> "array", elems |-> Tup(e)]
ZeroVec    == ArrayVec([i \in 1..Dim |-> 0])
NaNVec     == ArrayVec([i \in 1..Dim |-> IF i = 1 THEN NaN ELSE 1])
ShortVec   == ArrayVec([i \in 1..(Dim - 1) |-> 1])
GoodVec(j) == ArrayVec([i \in 1..Dim |-> IF i = 1 THEN j ELSE 1])

RawVecs == {AbsentVec, ScalarVec, ZeroVec, NaNVec, ShortVec, GoodVec(1), GoodVec(2)}

Doc(i, v) == [id |-> i, combined_embedding |-> v]

Filler(j) == Doc(NumIds + j, GoodVec(j + 2))
Fillers(f) == Tup([j \in 1..f |-> Filler(j)])

\* numpy arrays held by the engine
Zeros   == [num |-> Tup([i \in 1..Dim |-> 0]), den2 |-> 1]     \* np.zeros(self.dim)
SquaredNorm(e) == SumSeq(Tup([i \in 1..Len(e) |-> e[i] * e[i]]))
VecAny(v) == \E i \in 1..Len(v.num) : v.num[i] # 0           \* ndarray.any()

\* What the content of a document says about its vector, independently of any cache
ContentInvalid(d) ==
    \/ d.combined_embedding.tag # "array"
    \/ Len(d.combined_embedding.elems) # Dim
    \/ \E i \in 1..Len(d.combined_embedding.elems) : d.combined_embedding.elems[i] = NaN

----------------------------------------------------------------------------
(* PublicationClustering._get_publication_vector                           *)
(* Returns [raised, vec, cache].                                           *)

\* lines 33-43: the vector built from a combined_embedding that is not a scalar
ValidatedVector(raw) ==
    IF raw.tag = "none" THEN Zeros
    ELSE IF Len(raw.elems) # Dim \/ \E i \in 1..Len(raw.elems) : raw.elems[i] = NaN
         THEN Zeros
    ELSE IF SquaredNorm(raw.elems) > 0
         THEN [num |-> raw.elems, den2 |-> SquaredNorm(raw.elems)]
         ELSE [num |-> raw.elems, den2 |-> 1]

\* mutant: the cache keeps the vector as received, the caller gets the normalised one
GetPublicationVectorCachesRaw(cache, pub) ==
    LET pid == pub.id
        raw == pub.combined_embedding
    IN  IF pid # EmptyId /\ pid \in DOMAIN cache
        THEN [raised |-> FALSE, vec |-> cache[pid], cache |-> cache]
        ELSE IF raw.tag = "scalar"
        THEN [raised |-> TRUE, vec |-> Zeros, cache |-> cache]
        ELSE LET vec == ValidatedVector(raw)
             IN  [raised |-> FALSE, vec |-> vec,
                  cache |-> IF pid # EmptyId THEN (pid :> [vec EXCEPT !.den2 = 1]) @@ cache
                            ELSE cache]

\* mutant: the cache is never consulted, every get validates and stores again
GetPublicationVectorOverwrites(cache, pub) ==
    LET pid == pub.id
        raw == pub.combined_embedding
    IN  IF raw.tag = "scalar"
        THEN [raised |-> TRUE, vec |-> Zeros, cache |-> cache]
        ELSE LET vec == ValidatedVector(raw)
             IN  [raised |-> FALSE, vec |-> vec,
                  cache |-> IF pid # EmptyId THEN (pid :> vec) @@ cache ELSE cache]

\* the cache is a dictionary: a function whose domain is the set of cached ids
GetPublicationVector(cache, pub) ==
    LET pid == pub.id
        raw == pub.combined_embedding
    IN  IF pid # EmptyId /\ pid \in DOMAIN cache
        THEN [raised |-> FALSE, vec |-> cache[pid], cache |-> cache]
        ELSE IF raw.tag = "scalar"
        THEN \* np.asarray(scalar).shape[0] raises IndexError
             [raised |-> TRUE, vec |-> Zeros, cache |-> cache]
        ELSE LET vec == ValidatedVector(raw)
             IN  [raised |-> FALSE, vec |-> vec,
                  cache |-> IF pid # EmptyId THEN (pid :> vec) @@ cache ELSE cache]

----------------------------------------------------------------------------
(* cluster_publications, lines 60-73: the loop that fills pub_vectors.     *)
(* st = [cache, pub_vectors, ids, raised]; pub_vectors is the dictionary   *)
(* id -> non-zero vector and ids is list(pub_vectors.keys()), its keys in  *)
(* order of first insertion.                                               *)

RECURSIVE LoadVectors(_, _, _)
LoadVectors(st, publications, i) ==
    IF i > Len(publications) \/ st.raised THEN st
    ELSE LET pub == publications[i]
         IN  IF pub.id = EmptyId
             THEN LoadVectors(st, publications, i + 1)
             ELSE LET g == GetPublicationVector(st.cache, pub)
                  IN  IF g.raised
                      THEN [st EXCEPT !.raised = TRUE]
                      ELSE IF VecAny(g.vec)
                      THEN LoadVectors(
                             [cache  |-> g.cache,
                              pub_vectors |-> (pub.id :> g.vec) @@ st.pub_vectors,
                              ids    |-> IF pub.id \in DOMAIN st.pub_vectors
                                         THEN st.ids ELSE Append(st.ids, pub.id),
                              raised |-> FALSE],
                             publications, i + 1)
                      ELSE LoadVectors([st EXCEPT !.cache = g.cache], publications, i + 1)

\* X = np.vstack([pub_vectors[i] for i in ids])
Matrix(pub_vectors, ids) == Tup([i \in 1..Len(ids) |-> pub_vectors[ids[i]]])

----------------------------------------------------------------------------
(* The numeric libraries.  Every fit and metric is a function of the seed  *)
(* of the installed library and of its input.                              *)

RECURSIVE Pow(_, _)
Pow(b, e) == IF e = 0 THEN 1 ELSE b * Pow(b, e - 1)

\* the part of the input matrix a fit depends on
XHash(X) == SumSeq(Tup([i \in 1..Len(X) |-> X[i].num[1] + X[i].den2]))

FitSeed(l, X) == (l.seed + XHash(X)) % NumSeeds

\* digit d (0-based) of s written in base b
Digit(s, b, d) == (s \div Pow(b, d % 3)) % b

Raised == [raises |-> TRUE, labels |-> <<>>]

\* sklearn.cluster.KMeans(n_clusters=k).fit_predict(X): raises unless 1 <= k <= n_samples,
\* else labels in 0..k-1, first appearances and sizes depending on the data
KMeansFit(s, n, k, salt) ==
    IF k < 1 \/ k > n THEN Raised
    ELSE [raises |-> FALSE,
          labels |-> Tup([i \in 1..n |-> IF i <= k THEN (i - 1 + s + salt) % k
                                         ELSE Digit(s + salt + (i \div 4), k, i)])]

\* sklearn.cluster.AgglomerativeClustering(n_clusters=k, linkage=..).fit_predict(X)
AgglomerativeFit(s, n, k, linkage) ==
    LET salt == CASE linkage = "ward" -> 0 [] linkage = "complete" -> 1 [] OTHER -> 2
    IN  IF k < 1 \/ k > n \/ n < 2 THEN Raised
        ELSE [raises |-> FALSE,
              labels |-> Tup([i \in 1..n |-> IF i <= k THEN (k - i + s + salt) % k
                                             ELSE Digit(s + 2 * salt + (i \div 3), k, i + 1)])]

\* hdbscan.HDBSCAN(min_cluster_size=m).fit_predict(X): labels in -1..; a cluster has >= m points
HdbscanFit(s, n, m) ==
    LET c == IF s % 4 = 3 THEN 0                                \* number of clusters found
             ELSE IF s % 2 = 0 THEN n \div m ELSE Min2(n \div m, 1)
        noise == IF c = 0 THEN n ELSE (s \div 2) % (n - c * m + 1)
    IN  [raises |-> FALSE,
         labels |-> Tup([i \in 1..n |-> IF i <= noise THEN -1
                                        ELSE IF c = 1 THEN 0
                                        ELSE (s + (i - noise - 1) \div m) % c])]

NumDistinct(labels) == Cardinality(SeqToSet(labels))

\* sklearn.metrics.silhouette_score, in tenths (-10..10)
SilhouetteScore(s, labels) ==
    <<7, 2, 5, -1, 3, 7, 0, 4>>[((s * 3 + NumDistinct(labels) * 5 + labels[1]) % 8) + 1]

\* sklearn.metrics.calinski_harabasz_score (>= 0)
CalinskiHarabaszScore(s, labels) ==
    <<4, 9, 2, 6, 9, 1>>[((s + NumDistinct(labels) * 2 + labels[Len(labels)]) % 6) + 1]

\* sklearn.metrics.davies_bouldin_score (>= 0, lower is better)
DaviesBouldinScore(s, labels) ==
    <<3, 1, 5, 2, 3>>[((s * 2 + NumDistinct(labels)) % 5) + 1]

\* check_number_of_labels: the three metrics raise ValueError unless 2 <= n_labels <= n_samples - 1
MetricRaises(labels) == NumDistinct(labels) < 2 \/ NumDistinct(labels) > Len(labels) - 1

----------------------------------------------------------------------------
(* AdaptiveClusteringOptimizer.optimize_n_clusters                         *)

SilSentinel == -10     \* silhouette -1, in tenths
Inf == 1000            \* float('inf') as a Davies-Bouldin score

NoHistory == [n_clusters_range |-> <<>>, silhouette |-> <<>>, calinski_harabasz |-> <<>>,
              davies_bouldin |-> <<>>, composite |-> <<>>, adjusted_scores |-> <<>>,
              denominator |-> 1]

\* lines 50-55: the range that is swept
GuardedMax(n, min_clusters, max_clusters) == Min2(Min2(max_clusters, n \div 5), 20)
GuardedRange(n, min_clusters, max_clusters) ==
    LET mx == GuardedMax(n, min_clusters, max_clusters)
        mn == Min2(min_clusters, mx - 1)
    IN  IF mn >= mx
        THEN [min |-> 2, max |-> Max2(3, Min2(n \div 5, 20))]
        ELSE [min |-> mn, max |-> mx]

Sentinels(labelings) ==
    [silhouette |-> SilSentinel, ch |-> 0, db |-> Inf, appended |-> labelings]

\* lines 71-96: the three linkages of one hierarchical candidate; returns the kept labeling
LinkageMethods == <<"ward", "complete", "average">>
ScoreSubRun(s, n, f) ==
    IF f.raises THEN [score |-> SilSentinel, labels |-> ZeroLabels(n)]
    ELSE IF NumDistinct(f.labels) > 1
    THEN IF MetricRaises(f.labels)
         THEN [score |-> SilSentinel, labels |-> ZeroLabels(n)]
         ELSE [score |-> SilhouetteScore(s, f.labels), labels |-> f.labels]
    ELSE [score |-> SilSentinel, labels |-> f.labels]
SubRun(s, n, k, linkage) == ScoreSubRun(s, n, AgglomerativeFit(s, n, k, linkage))
KeepBestLinkage(subs) == subs[ArgMax(Tup([i \in 1..3 |-> subs[i].score])) + 1].labels
BestLinkage(s, n, k) ==
    KeepBestLinkage(Tup([i \in 1..3 |-> SubRun(s, n, k, LinkageMethods[i])]))

\* lines 66-106: the fit of one candidate k
FitCandidate(s, n, k, method) ==
    IF method = "kmeans" THEN KMeansFit(s, n, k, 0)
    ELSE IF method = "hierarchical" THEN [raises |-> FALSE, labels |-> BestLinkage(s, n, k)]
    ELSE KMeansFit(s, n, k, 1)

\* mutant: the failure handler appends its placeholder labeling twice
ScoreCandidateAppendsTwice(s, n, f) ==
    IF f.raises THEN Sentinels(<<ZeroLabels(n), ZeroLabels(n)>>)
    ELSE IF NumDistinct(f.labels) > 1
    THEN IF MetricRaises(f.labels)
         THEN Sentinels(<<f.labels, ZeroLabels(n)>>)
         ELSE [silhouette |-> SilhouetteScore(s, f.labels),
               ch |-> CalinskiHarabaszScore(s, f.labels),
               db |-> DaviesBouldinScore(s, f.labels),
               appended |-> <<f.labels>>]
    ELSE Sentinels(<<f.labels>>)

\* lines 107-130: the scores of one fit f; "appended" are the arrays appended to labels_list
ScoreCandidate(s, n, f) ==
    IF f.raises THEN Sentinels(<<ZeroLabels(n)>>)
    ELSE IF NumDistinct(f.labels) > 1
    THEN IF MetricRaises(f.labels)
         THEN Sentinels(<<f.labels, ZeroLabels(n)>>)
         ELSE [silhouette |-> SilhouetteScore(s, f.labels),
               ch |-> CalinskiHarabaszScore(s, f.labels),
               db |-> DaviesBouldinScore(s, f.labels),
               appended |-> <<f.labels>>]
    ELSE Sentinels(<<f.labels>>)

\* lines 64-130: one iteration of the sweep
Candidate(s, n, k, method) == ScoreCandidate(s, n, FitCandidate(s, n, k, method))

RECURSIVE Flatten(_)
Flatten(ss) == IF ss = <<>> THEN <<>> ELSE Head(ss) \o Flatten(Tail(ss))

\* lines 132-136, numerators over SilDen
SilDen(sil) == IF MaxSeq(sil) > MinSeq(sil) THEN MaxSeq(sil) - MinSeq(sil) ELSE 1
NormSilhouette(sil) ==
    LET mx == MaxSeq(sil)
        mn == MinSeq(sil)
    IN  Tup([i \in 1..Len(sil) |->
               IF mx > mn
               THEN IF sil[i] > SilSentinel THEN sil[i] - mn ELSE 0
               ELSE IF sil[i] > SilSentinel THEN 1 ELSE 0])

\* lines 138-141, numerators over ChDen
ChDen(ch) == IF MaxSeq(ch) > 0 THEN MaxSeq(ch) ELSE 1
\* mutant: min-max numerators, (c - min)
NormChMinMax(ch) ==
    LET mx == MaxSeq(ch)
        mn == MinSeq(ch)
    IN  Tup([i \in 1..Len(ch) |-> IF mx > 0 THEN ch[i] - mn ELSE 0])

NormCh(ch) ==
    LET mx == MaxSeq(ch)
    IN  Tup([i \in 1..Len(ch) |-> IF mx > 0 THEN ch[i] ELSE 0])

\* lines 143-148, numerators over DbDen; (d - min) / (inf - min) is 0.0 in floating point
DbDen(db) == IF MinSeq(db) < Inf /\ MaxSeq(db) < Inf /\ MaxSeq(db) > MinSeq(db)
             THEN MaxSeq(db) - MinSeq(db) ELSE 1
NormDb(db) ==
    LET mx == MaxSeq(db)
        mn == MinSeq(db)
    IN  Tup([i \in 1..Len(db) |->
               IF mn < Inf
               THEN IF db[i] < Inf /\ mx > mn
                    THEN IF mx = Inf THEN 1 ELSE mx - db[i]
                    ELSE 0
               ELSE 0])

\* lines 151-158: composite scores over the common denominator 100 * sd * cd * dd,
\* the normalised scores being numerators over sd, cd and dd
Composite(ns, nc, nd, sd, cd, dd) ==
    Tup([i \in 1..Len(ns) |-> 60 * ns[i] * cd * dd + 25 * nc[i] * sd * dd + 15 * nd[i] * sd * cd])

\* mutant: the penalty is penalty_factor * i, counted from the first candidate
AdjustedFromFirst(composite, min_clusters, unit) ==
    Tup([i \in 1..Len(composite) |-> composite[i] - (i - 1) * unit])

\* lines 160-164: penalty_factor * (i + min_clusters), over the same denominator
Adjusted(composite, min_clusters, unit) ==
    Tup([i \in 1..Len(composite) |-> composite[i] - ((i - 1) + min_clusters) * unit])

\* mutant: the best index is taken as 1-based
OptimalNClustersOneBased(min_clusters, best_idx) == min_clusters + best_idx + 1

\* line 172
OptimalNClusters(min_clusters, best_idx) == min_clusters + best_idx

\* lines 166-191: the best candidate and the history that is recorded;
\* r is the swept range, comp the composite scores over the denominator 100 * unit
SelectOptimal(r, cands, sil, ch, db, unit, comp) ==
    LET adj         == Adjusted(comp, r.min, unit)
        best_idx    == ArgMax(adj)
        labels_list == Flatten(Tup([i \in 1..Len(cands) |-> cands[i].appended]))
    IN  [n_clusters  |-> OptimalNClusters(r.min, best_idx),
         labels      |-> labels_list[best_idx + 1],
         labels_list |-> labels_list,
         history     |-> [n_clusters_range |-> RangeSeq(r.min, r.max), silhouette |-> sil,
                          calinski_harabasz |-> ch, davies_bouldin |-> db, composite |-> comp,
                          adjusted_scores |-> adj, denominator |-> 100 * unit]]

\* lines 132-164: normalisation and composite scores of the three score lists
RankCandidates(r, cands, sil, ch, db) ==
    SelectOptimal(r, cands, sil, ch, db,
                  SilDen(sil) * ChDen(ch) * DbDen(db),
                  Composite(NormSilhouette(sil), NormCh(ch), NormDb(db),
                            SilDen(sil), ChDen(ch), DbDen(db)))

\* lines 58-61 after the loop: the three score lists
CollectScores(r, cands) ==
    RankCandidates(r, cands,
                   Tup([i \in 1..Len(cands) |-> cands[i].silhouette]),
                   Tup([i \in 1..Len(cands) |-> cands[i].ch]),
                   Tup([i \in 1..Len(cands) |-> cands[i].db]))

\* mutant: the loop is left at the first candidate whose fit raises
SweepRangeStopsAtFailure(s, n, r, method) ==
    LET len == Max2(0, r.max - r.min + 1)
        bad == {i \in 1..len : FitCandidate(s, n, r.min + i - 1, method).raises}
        upto == IF bad = {} THEN len ELSE CHOOSE i \in bad : \A j \in bad : i <= j
    IN  CollectScores(r, Tup([i \in 1..upto |-> Candidate(s, n, r.min + i - 1, method)]))

\* lines 64-130: the loop over range(min_clusters, max_clusters + 1)
SweepRange(s, n, r, method) ==
    CollectScores(r, Tup([i \in 1..Max2(0, r.max - r.min + 1) |->
                            Candidate(s, n, r.min + i - 1, method)]))

\* the whole method; returns the pair (optimal_n_clusters, optimal_labels) and the new scores_history
OptimizeNClusters(s, n, min_req, max_req, method) ==
    SweepRange(s, n, GuardedRange(n, min_req, max_req), method)

----------------------------------------------------------------------------
(* AdaptiveClusteringOptimizer.optimize_pca_dimensions                     *)
(* The matrix X is passed together with its shape (n_samples, n_features); *)
(* variance_threshold and cumulative variances are in percent.  "fits"     *)
(* counts the PCA objects that were fitted.                                *)

\* sklearn.decomposition.PCA(n_components=c).fit(X) raises unless 0 <= c <= min(X.shape)
PcaRaises(n_samples, n_features, c) == c < 0 \/ c > Min2(n_samples, n_features)

\* np.cumsum(pca.explained_variance_ratio_) of a fit with c components: non-decreasing,
\* reaching 100 when every direction of the data is kept
CumulativeVariance(l, n_samples, n_features, c) ==
    Tup([j \in 1..c |-> IF j >= Min2(n_samples, n_features) THEN 100
                        ELSE Min2(100, j * <<45, 30, 12, 1>>[(l.seed % 4) + 1])])

\* PCA(n_components=k).fit_transform(X)
Projected(X, k) == [projection_of |-> X, n_components |-> k]

PcaResult(raised, opt_dims, X_reduced, fits) ==
    [raised |-> raised, opt_dims |-> opt_dims, X_reduced |-> X_reduced, fits |-> fits]

\* mutant: the test is n_features < 50
NoReductionNeededStrict(n_features) == n_features < 50

\* line 24
NoReductionNeeded(n_features) == n_features <= 50

\* mutant: the comparison is cumulative_variance > variance_threshold
FirstExceeding(cum, variance_threshold) ==
    ArgMax(Tup([j \in 1..Len(cum) |-> IF cum[j] > variance_threshold THEN 1 ELSE 0])) + 1

\* line 33: np.argmax(cumulative_variance >= variance_threshold) + 1
FirstReaching(cum, variance_threshold) ==
    ArgMax(Tup([j \in 1..Len(cum) |-> IF cum[j] >= variance_threshold THEN 1 ELSE 0])) + 1

\* lines 36-46: what follows the choice of optimal_dims
ReduceTo(X, n_samples, n_features, optimal_dims) ==
    IF optimal_dims < n_features
    THEN IF PcaRaises(n_samples, n_features, optimal_dims)
         THEN PcaResult(TRUE, 0, X, 1)
         ELSE PcaResult(FALSE, optimal_dims, Projected(X, optimal_dims), 2)
    ELSE PcaResult(FALSE, n_features, X, 1)

OptimizePcaDimensions(l, X, n_samples, n_features, variance_threshold, max_dims) ==
    IF NoReductionNeeded(n_features) THEN PcaResult(FALSE, n_features, X, 0)
    ELSE IF PcaRaises(n_samples, n_features, Min2(Min2(n_samples, n_features), max_dims))
    THEN PcaResult(TRUE, 0, X, 0)
    ELSE IF Min2(Min2(n_samples, n_features), max_dims) = 0
    THEN PcaResult(TRUE, 0, X, 1)          \* np.argmax of an empty array raises
    ELSE ReduceTo(X, n_samples, n_features,
                  Max2(2, FirstReaching(
                            CumulativeVariance(l, n_samples, n_features,
                                               Min2(Min2(n_samples, n_features), max_dims)),
                            variance_threshold)))

----------------------------------------------------------------------------
(* PublicationClustering._run_clustering                                   *)

KnownMethods == {"auto", "kmeans", "hierarchical", "hdbscan", "adaptive"}
Methods == KnownMethods \cup {"banana", "kmeans_fast"}
StartsWithKmeans(method) == method \in {"kmeans", "kmeans_fast"}   \* str.startswith("kmeans")

\* mutant: the square root of n, not of n / 2
ExplicitKSqrtN(n, k_max) == Min2(k_max, Max2(2, ISqrt(n)))

\* k = min(k_max, max(2, int(np.sqrt(n / 2))))
ExplicitK(n, k_max) == Min2(k_max, Max2(2, ISqrt(n \div 2)))

\* mutant: the guard of optimize_n_clusters, max(3, n // 5), in place of max(3, min_k)
AdaptiveRangeSelectorGuard(n, k_max) ==
    LET min_k == Max2(2, Min2(k_max - 1, 3))
        max_k == Min2(k_max, ISqrt(n))
    IN  IF min_k >= max_k THEN [min |-> 2, max |-> Max2(3, n \div 5)]
        ELSE [min |-> min_k, max |-> max_k]

\* lines 193-199
AdaptiveRange(n, k_max) ==
    LET min_k == Max2(2, Min2(k_max - 1, 3))
        max_k == Min2(k_max, ISqrt(n))
    IN  IF min_k >= max_k THEN [min |-> 2, max |-> Max2(3, 2)]
        ELSE [min |-> min_k, max |-> max_k]

Run(raised, labels, n_clusters, method_used, history, warnings) ==
    [raised |-> raised, labels |-> labels, n_clusters |-> n_clusters,
     method_used |-> method_used, history |-> history, warnings |-> warnings]
RunRaised == Run(TRUE, <<>>, 0, "", NoHistory, {})

\* line 217 with lines 209-215: what the adaptive branch returns for the sweep outcome o
AdaptiveRun(actual_method, o) ==
    Run(FALSE, o.labels, o.n_clusters,
        IF actual_method = "kmeans" THEN "kmeans_adaptive"
        ELSE IF actual_method = "hierarchical" THEN "hierarchical_adaptive"
        ELSE "auto_adaptive",
        o.history, {})

\* mutant: the noise label is counted as a cluster
CountClustersWithNoise(labels) == NumDistinct(labels)

\* line 242: len(set(labels)) - (1 if -1 in labels else 0)
CountClusters(labels) == NumDistinct(labels) - (IF -1 \in SeqToSet(labels) THEN 1 ELSE 0)

RECURSIVE RunClustering(_, _, _, _, _, _)
RunClustering(l, method, X, k_max, min_cluster_size, adaptive) ==
    LET n == Len(X)
        s == FitSeed(l, X)
    IN  IF method = "adaptive" \/ (adaptive /\ method \in {"kmeans", "hierarchical", "auto"})
        THEN LET actual_method == IF method = "adaptive" THEN "kmeans" ELSE method
                 \* the engine is modelled with Dim <= 50: X_reduced is X
                 red == OptimizePcaDimensions(l, X, n, Dim, 90, 100)
                 r   == AdaptiveRange(Len(red.X_reduced), k_max)
             IN  AdaptiveRun(actual_method,
                             OptimizeNClusters(s, n, r.min, r.max, actual_method))
        ELSE IF StartsWithKmeans(method)
        THEN LET k == ExplicitK(n, k_max)
                 f == KMeansFit(s, n, k, 1)
             IN  IF f.raises THEN RunRaised
                 ELSE Run(FALSE, f.labels, k, "kmeans (PCA)", NoHistory, {})
        ELSE IF method = "hierarchical"
        THEN LET k == ExplicitK(n, k_max)
                 f == AgglomerativeFit(s, n, k, "ward")
             IN  IF f.raises THEN RunRaised
                 ELSE Run(FALSE, f.labels, k, "hierarchical", NoHistory, {})
        ELSE IF method = "hdbscan" /\ l.hdbscan
        THEN LET f == HdbscanFit(s, n, Max2(min_cluster_size, 3))
             IN  Run(FALSE, f.labels, CountClusters(f.labels), "hdbscan", NoHistory, {})
        ELSE \* hdbscan without the library, or an unknown method: the recursive call
             \* passes no adaptive argument, so the default adaptive=True applies
             LET fb == RunClustering(l, "kmeans", X, k_max, min_cluster_size, TRUE)
             IN  [fb EXCEPT !.warnings =
                     @ \cup {IF method = "hdbscan" THEN "hdbscan not installed"
                             ELSE "Unknown clustering method"}]

\* mutant: the density library is never tried
AutoMethodChoiceNoDensity(l, n) == IF n < 15 THEN "hierarchical" ELSE "kmeans"

\* PublicationClustering._auto_method_choice
AutoMethodChoice(l, n) ==
    IF n < 15 THEN "hierarchical"
    ELSE IF n < 150 THEN (IF l.hdbscan THEN "hdbscan" ELSE "kmeans")
    ELSE "kmeans"

\* PublicationClustering._quality_stats; labels[mask] keeps the non-negative labels
Masked(labels) == SelectSeq(labels, LAMBDA x : x >= 0)
NanScore == [nan |-> TRUE, value |-> 0]                \* float("nan")

\* mutant: the silhouette is computed over every point, noise included
QualityStatsUnmasked(s, labels) ==
    LET kept == Masked(labels)
    IN  [silhouette  |-> IF Len(kept) < 3 \/ NumDistinct(kept) < 2 THEN NanScore
                         ELSE IF MetricRaises(labels) THEN NanScore
                         ELSE [nan |-> FALSE, value |-> SilhouetteScore(s, labels)],
         share_noise |-> [noise |-> Len(labels) - Len(kept), of |-> Len(labels)],
         parameter_metrics |-> NoHistory]

\* share_noise is kept as the fraction noise / of
QualityStats(s, labels) ==
    LET kept == Masked(labels)
    IN  [silhouette  |-> IF Len(kept) < 3 \/ NumDistinct(kept) < 2 THEN NanScore
                         ELSE IF MetricRaises(kept) THEN NanScore
                         ELSE [nan |-> FALSE, value |-> SilhouetteScore(s, kept)],
         share_noise |-> [noise |-> Len(labels) - Len(kept), of |-> Len(labels)],
         parameter_metrics |-> NoHistory]

----------------------------------------------------------------------------
(* cluster_publications, lines 91-114: grouping and ordering               *)

\* mutant: label 0 is treated as noise
RECURSIVE GroupByLabelSkipZero(_, _, _, _)
GroupByLabelSkipZero(clusters, ids, labels, i) ==
    IF i > Len(labels) THEN clusters
    ELSE IF labels[i] <= 0 THEN GroupByLabelSkipZero(clusters, ids, labels, i + 1)
    ELSE LET pos == {j \in 1..Len(clusters) : clusters[j].id = labels[i]}
         IN  IF pos = {}
             THEN GroupByLabelSkipZero(Append(clusters, [id |-> labels[i],
                                                 publications |-> <<ids[i]>>, size |-> 1]),
                               ids, labels, i + 1)
             ELSE LET j == CHOOSE x \in pos : TRUE
                  IN  GroupByLabelSkipZero([clusters EXCEPT ![j] =
                                      [id |-> @.id, publications |-> Append(@.publications, ids[i]),
                                       size |-> @.size + 1]],
                                   ids, labels, i + 1)

\* lines 91-97 and 108: one record per label >= 0, in order of first appearance
RECURSIVE GroupByLabel(_, _, _, _)
GroupByLabel(clusters, ids, labels, i) ==
    IF i > Len(labels) THEN clusters
    ELSE IF labels[i] < 0 THEN GroupByLabel(clusters, ids, labels, i + 1)
    ELSE LET pos == {j \in 1..Len(clusters) : clusters[j].id = labels[i]}
         IN  IF pos = {}
             THEN GroupByLabel(Append(clusters, [id |-> labels[i],
                                                 publications |-> <<ids[i]>>, size |-> 1]),
                               ids, labels, i + 1)
             ELSE LET j == CHOOSE x \in pos : TRUE
                  IN  GroupByLabel([clusters EXCEPT ![j] =
                                      [id |-> @.id, publications |-> Append(@.publications, ids[i]),
                                       size |-> @.size + 1]],
                                   ids, labels, i + 1)

\* mutant: reverse=True forgotten, smallest cluster first
RECURSIVE InsertBySizeAscending(_, _)
InsertBySizeAscending(sorted, c) ==
    IF sorted = <<>> THEN <<c>>
    ELSE IF Head(sorted).size <= c.size
         THEN <<Head(sorted)>> \o InsertBySizeAscending(Tail(sorted), c)
    ELSE <<c>> \o sorted

\* mutant: an unstable sort, a later cluster goes in front of earlier ones of its size
RECURSIVE InsertBySizeUnstable(_, _)
InsertBySizeUnstable(sorted, c) ==
    IF sorted = <<>> THEN <<c>>
    ELSE IF Head(sorted).size > c.size
         THEN <<Head(sorted)>> \o InsertBySizeUnstable(Tail(sorted), c)
    ELSE <<c>> \o sorted

\* sorted(..., key=size, reverse=True): stable, equal sizes keep their order
RECURSIVE InsertBySize(_, _)
InsertBySize(sorted, c) ==
    IF sorted = <<>> THEN <<c>>
    ELSE IF Head(sorted).size >= c.size THEN <<Head(sorted)>> \o InsertBySize(Tail(sorted), c)
    ELSE <<c>> \o sorted
RECURSIVE SortBySizeDesc(_, _)
SortBySizeDesc(sorted, rest) ==
    IF rest = <<>> THEN sorted
    ELSE SortBySizeDesc(InsertBySize(sorted, Head(rest)), Tail(rest))

----------------------------------------------------------------------------
(* cluster_publications as a whole: the new engine state and the result    *)

NoQuality == [silhouette |-> NanScore, share_noise |-> [noise |-> 0, of |-> 0],
              parameter_metrics |-> NoHistory]
Outcome(status, clusters, n_clusters, method, n, quality, ids, labels, warnings) ==
    [status |-> status, clusters |-> clusters, n_clusters |-> n_clusters, method |-> method,
     num_publications |-> n, quality |-> quality, ids |-> ids, labels |-> labels,
     warnings |-> warnings]
ErrorResult == Outcome("error", <<>>, 0, "", 0, NoQuality, <<>>, <<>>, {})
RaisedResult == Outcome("raised", <<>>, 0, "", 0, NoQuality, <<>>, <<>>, {})
NoResult == Outcome("none", <<>>, 0, "", 0, NoQuality, <<>>, <<>>, {})

\* lines 89-129: the result built from the outcome "run" of _run_clustering, s being
\* the seed the metrics of _quality_stats depend on
BuildResult(cache, mh, sh, ids, s, run) ==
    IF run.raised
    THEN [cache |-> cache, metrics_history |-> mh, scores_history |-> sh,
          result |-> RaisedResult]
    ELSE [cache |-> cache,
          metrics_history |-> IF run.history # NoHistory THEN run.history ELSE mh,
          scores_history  |-> IF run.history # NoHistory THEN run.history ELSE sh,
          result |->
            Outcome("ok",
                    SortBySizeDesc(<<>>, GroupByLabel(<<>>, ids, run.labels, 1)),
                    run.n_clusters, run.method_used, Len(ids),
                    [QualityStats(s, run.labels)
                        EXCEPT !.parameter_metrics =
                               IF run.history # NoHistory THEN run.history ELSE mh],
                    ids, run.labels, run.warnings)]

\* lines 72-87: X = np.vstack(...), the method choice and the call of _run_clustering
ClusterMatrix(cache, mh, sh, l, ids, X, method, k_max, min_cluster_size, adaptive) ==
    BuildResult(cache, mh, sh, ids, FitSeed(l, X),
                RunClustering(l, IF method = "auto" THEN AutoMethodChoice(l, Len(X)) ELSE method,
                              X, k_max, min_cluster_size, adaptive))

\* lines 69-129: what follows the loading loop, ld being the state LoadVectors left
ClusterLoaded(mh, sh, l, ld, method, k_max, min_cluster_size, adaptive) ==
    IF ld.raised
    THEN [cache |-> ld.cache, metrics_history |-> mh, scores_history |-> sh,
          result |-> RaisedResult]
    ELSE IF Len(ld.ids) < 3
    THEN [cache |-> ld.cache, metrics_history |-> mh, scores_history |-> sh,
          result |-> ErrorResult]
    ELSE ClusterMatrix(ld.cache, mh, sh, l, ld.ids, Matrix(ld.pub_vectors, ld.ids),
                       method, k_max, min_cluster_size, adaptive)

ClusterPublications(cache, mh, sh, l, publications, method, k_max, min_cluster_size, adaptive) ==
    ClusterLoaded(mh, sh, l,
                  LoadVectors([cache |-> cache, pub_vectors |-> <<>>, ids |-> <<>>,
                               raised |-> FALSE], publications, 1),
                  method, k_max, min_cluster_size, adaptive)

----------------------------------------------------------------------------
(* State machine *)

MaxDocs == 2    \* documents with arbitrary id and content in front of the fillers

Args(op, publications, method, k_max, min_cluster_size, adaptive, n, min_clusters, max_clusters) ==
    [op |-> op, publications |-> publications, method |-> method, k_max |-> k_max,
     min_cluster_size |-> min_cluster_size, adaptive |-> adaptive,
     n |-> n, min_clusters |-> min_clusters, max_clusters |-> max_clusters]
NoCall == Args("none", <<>>, "", 0, 0, FALSE, 0, 0, 0)

\* the state after PublicationClustering.__init__ (which builds its AdaptiveClusteringOptimizer)
Init ==
    /\ vector_cache = <<>>
    /\ metrics_history = NoHistory
    /\ scores_history = NoHistory
    /\ lib \in [seed : 0..(NumSeeds - 1), hdbscan : BOOLEAN]
    /\ call = NoCall
    /\ result = NoResult
    /\ repeated = FALSE

\* engine.cluster_publications(publications, method, k_max, min_cluster_size, adaptive)
ClusterCall(publications, method, k_max, min_cluster_size, adaptive) ==
    \E o \in {ClusterPublications(vector_cache, metrics_history, scores_history, lib,
                                  publications, method, k_max, min_cluster_size, adaptive)} :
        /\ vector_cache' = o.cache
        /\ metrics_history' = o.metrics_history
        /\ scores_history' = o.scores_history
        /\ result' = o.result
        /\ call' = Args("cluster_publications", publications, method, k_max,
                        min_cluster_size, adaptive, 0, 0, 0)
        /\ repeated' = (call' = call)
        /\ UNCHANGED lib

\* engine.optimizer.optimize_n_clusters(X, min_clusters, max_clusters, method) on n well-formed rows
FillerMatrix(n) == Tup([j \in 1..n |-> ValidatedVector(Filler(j).combined_embedding)])
OptimizeCall(n, min_clusters, max_clusters, method) ==
    \E o \in {OptimizeNClusters(FitSeed(lib, FillerMatrix(n)), n,
                                min_clusters, max_clusters, method)} :
        /\ scores_history' = o.history
        /\ result' = [labels_list |-> o.labels_list] @@
                     Outcome("swept", <<>>, o.n_clusters, method, n, NoQuality, <<>>, o.labels, {})
        /\ call' = Args("optimize_n_clusters", <<>>, method, 0, 0, FALSE,
                        n, min_clusters, max_clusters)
        /\ repeated' = (call' = call)
        /\ UNCHANGED <<vector_cache, metrics_history, lib>>

DocSet == {Doc(i, v) : i \in 0..NumIds, v \in RawVecs}
RECURSIVE SeqsUpTo(_, _)
SeqsUpTo(S, len) ==
    IF len = 0 THEN {<<>>}
    ELSE SeqsUpTo(S, len - 1) \cup
         {Append(p, d) : p \in {q \in SeqsUpTo(S, len - 1) : Len(q) = len - 1}, d \in S}

\* Spec: the life of one engine instance, call after call
ProbeDocs == {<<>>} \cup {<<Doc(1, v)>> : v \in RawVecs}
ProbeCall ==
    \E p \in ProbeDocs, m \in {"kmeans", "hdbscan"}, a \in BOOLEAN :
        ClusterCall(p \o Fillers(2), m, 10, 3, a)
BulkCall ==
    \E m \in {"auto", "kmeans", "hierarchical", "hdbscan"}, a \in BOOLEAN :
        ClusterCall(Fillers(MaxFill - 5), m, 10, 3, a)
Next == ProbeCall \/ BulkCall
Spec == Init /\ [][Next]_vars

\* SpecDocs: the first call of an engine, over every short batch of arbitrary documents
NextDocs ==
    /\ call.op = "none"
    /\ \E p \in SeqsUpTo(DocSet, MaxDocs), f \in {1, 3}, m \in {"kmeans", "hdbscan"} :
          ClusterCall(p \o Fillers(f), m, 10, 3, FALSE)
SpecDocs == Init /\ [][NextDocs]_vars

\* SpecDispatch: the first call of an engine, over every method and batch size
LargeFill == 18   \* a batch large enough for int(sqrt(n / 2)) = 3
NextDispatch ==
    /\ call.op = "none"
    /\ \E f \in (0..MaxFill) \cup {LargeFill}, m \in Methods, k \in {2, 3, 10}, c \in {1, 5}, a \in BOOLEAN :
          ClusterCall(Fillers(f), m, k, c, a)
SpecDispatch == Init /\ [][NextDispatch]_vars

\* SpecSweep: optimize_n_clusters called directly
NextSweep ==
    /\ call.op = "none"
    /\ \E n \in 3..(MaxFill + 10), mn \in 0..5, mx \in 0..6,
          m \in {"kmeans", "hierarchical", "auto"} :
          OptimizeCall(n, mn, mx, m)
SpecSweep == Init /\ [][NextSweep]_vars

\* SpecSelect: the selection step of optimize_n_clusters (lines 160-191) on arbitrary
\* composite scores, in hundredths, of a sweep starting at min_clusters
MaxCands == 3    \* largest number of candidates of such a sweep
MaxScore == 4    \* largest composite score, in hundredths

SelectArgs(min_clusters, composite) ==
    [op |-> "select_optimal", min_clusters |-> min_clusters, composite |-> composite]

\* the candidates of such a sweep: candidate i recorded the labeling <<i, 0>>
DummyCands(len) ==
    Tup([i \in 1..len |-> [silhouette |-> 0, ch |-> 0, db |-> 0, appended |-> <<<<i, 0>>>>]])

SelectCall(min_clusters, composite) ==
    \E o \in {SelectOptimal([min |-> min_clusters, max |-> min_clusters + Len(composite) - 1],
                            DummyCands(Len(composite)),
                            ZeroLabels(Len(composite)), ZeroLabels(Len(composite)),
                            ZeroLabels(Len(composite)), 1, composite)} :
        /\ scores_history' = o.history
        /\ result' = [labels_list |-> o.labels_list] @@
                     Outcome("swept", <<>>, o.n_clusters, "", 0, NoQuality, <<>>, o.labels, {})
        /\ call' = SelectArgs(min_clusters, composite)
        /\ repeated' = FALSE
        /\ UNCHANGED <<vector_cache, metrics_history, lib>>

NextSelect ==
    /\ call.op = "none"
    /\ \E min_clusters \in {-1, 0, 2, 3},
          composite \in {c \in SeqsUpTo(0..MaxScore, MaxCands) : Len(c) >= 1} :
          SelectCall(min_clusters, composite)
SpecSelect == Init /\ [][NextSelect]_vars

\* SpecPca: optimize_pca_dimensions called directly on a matrix of a given shape
MaxSamples  == 6     \* largest number of rows
MaxFeatures == 52    \* largest number of columns
LargeSamples == 52   \* a matrix with at least as many rows as columns

PcaArgs(n_samples, n_features, variance_threshold, max_dims) ==
    [op |-> "optimize_pca_dimensions", n_samples |-> n_samples, n_features |-> n_features,
     variance_threshold |-> variance_threshold, max_dims |-> max_dims]
PcaInput(n_samples, n_features) == [rows |-> n_samples, cols |-> n_features]

\* engine.optimizer.optimize_pca_dimensions(X, variance_threshold, max_dims)
PcaCall(n_samples, n_features, variance_threshold, max_dims) ==
    /\ result' = OptimizePcaDimensions(lib, PcaInput(n_samples, n_features), n_samples,
                                       n_features, variance_threshold, max_dims)
    /\ call' = PcaArgs(n_samples, n_features, variance_threshold, max_dims)
    /\ repeated' = FALSE
    /\ UNCHANGED <<vector_cache, metrics_history, scores_history, lib>>

NextPca ==
    /\ call.op = "none"
    /\ \E n_samples \in (1..MaxSamples) \cup {LargeSamples}, n_features \in 1..MaxFeatures,
          variance_threshold \in {50, 90, 100}, max_dims \in {0, 1, 3, 100} :
          PcaCall(n_samples, n_features, variance_threshold, max_dims)
SpecPca == Init /\ [][NextPca]_vars

\* SpecRange: the adaptive branch of _run_clustering up to its call of optimize_n_clusters
\* (lines 193-206), on a matrix of n rows; the result is the pair (min_clusters, max_clusters)
\* that is passed
MaxRangeN == 40   \* largest number of rows
MaxKMax   == 8    \* largest k_max

RangeArgs(n, k_max) == [op |-> "adaptive_range", n |-> n, k_max |-> k_max]

AdaptiveRangeCall(n, k_max) ==
    /\ result' = AdaptiveRange(n, k_max)
    /\ call' = RangeArgs(n, k_max)
    /\ repeated' = FALSE
    /\ UNCHANGED <<vector_cache, metrics_history, scores_history, lib>>

NextRange ==
    /\ call.op = "none"
    /\ \E n \in 3..MaxRangeN, k_max \in 0..MaxKMax : AdaptiveRangeCall(n, k_max)
SpecRange == Init /\ [][NextRange]_vars

----------------------------------------------------------------------------
(* backend/app.py: the lookup endpoints get_publication and get_author,    *)
(* with ElasticsearchService.search_sync.  "store" is what the HTTP        *)
(* exchange with the store does.                                           *)

SearchOutcomes == {"hit", "hit_without_source", "no_hits", "no_hits_key", "not_an_object",
                   "http_error", "connection_error"}
DocOutcomes == {"found", "found_without_source", "not_found", "http_error",
                "connection_error", "bad_json"}
LookupIds == {"p1", "p2", "nonexistent_id"}

\* exceptions and responses
HTTPException(status_code, kind, id) ==
    [raised |-> TRUE, type |-> "HTTPException", status_code |-> status_code,
     detail |-> [kind |-> kind, id |-> id]]
OtherException(what) ==
    [raised |-> TRUE, type |-> "Exception", status_code |-> 0,
     detail |-> [kind |-> what, id |-> ""]]
Returns(body) ==
    [raised |-> FALSE, type |-> "", status_code |-> 200, detail |-> [kind |-> body, id |-> ""]]

\* elasticsearch_service.py lines 67-81: every exception of the exchange becomes an
\* {"error": ...} dictionary; otherwise the decoded body is returned
SearchSync(store) ==
    CASE store \in {"http_error", "connection_error"} ->
             [is_dict |-> TRUE, has_hits |-> FALSE, hits |-> <<>>]
      [] store = "not_an_object" -> [is_dict |-> FALSE, has_hits |-> FALSE, hits |-> <<>>]
      [] store = "no_hits_key"   -> [is_dict |-> TRUE, has_hits |-> FALSE, hits |-> <<>>]
      [] store = "no_hits"       -> [is_dict |-> TRUE, has_hits |-> TRUE, hits |-> <<>>]
      [] store = "hit"           -> [is_dict |-> TRUE, has_hits |-> TRUE,
                                     hits |-> <<[has_source |-> TRUE]>>]
      [] OTHER                   -> [is_dict |-> TRUE, has_hits |-> TRUE,
                                     hits |-> <<[has_source |-> FALSE]>>]

\* app.py lines 197-201 and 215-219: "except HTTPException: raise", then
\* "except Exception as e: raise HTTPException(500, str(e))"
ExceptClauses(outcome) ==
    IF outcome.raised /\ outcome.type # "HTTPException"
    THEN [outcome EXCEPT !.type = "HTTPException", !.status_code = 500]
    ELSE outcome

\* app.py lines 189-196: the body of the try block of get_publication
PublicationBody(publication_id, response) ==
    IF ~response.is_dict THEN OtherException("AttributeError")
    ELSE IF response.hits = <<>> THEN HTTPException(404, "not found", publication_id)
    ELSE IF ~response.hits[1].has_source THEN OtherException("KeyError")
    ELSE Returns("_source")

GetPublication(publication_id, store) ==
    ExceptClauses(PublicationBody(publication_id, SearchSync(store)))

\* app.py lines 208-214: the body of the try block of get_author
AuthorBody(author_id, store) ==
    CASE store = "connection_error" -> OtherException("ConnectionError")
      [] store = "not_found"        -> HTTPException(404, "not found", author_id)
      [] store = "http_error"       -> OtherException("HTTPError")
      [] store = "bad_json"         -> OtherException("JSONDecodeError")
      [] store = "found"            -> Returns("_source")
      [] OTHER                      -> Returns("{}")

GetAuthor(author_id, store) == ExceptClauses(AuthorBody(author_id, store))

LookupArgs(op, id, store) == [op |-> op, id |-> id, store |-> store]

\* GET /api/publications/{publication_id}
GetPublicationCall ==
    \E id \in LookupIds, store \in SearchOutcomes :
        /\ result' = GetPublication(id, store)
        /\ call' = LookupArgs("get_publication", id, store)
        /\ repeated' = (call' = call)
        /\ UNCHANGED <<vector_cache, metrics_history, scores_history, lib>>

\* GET /api/authors/{author_id}
GetAuthorCall ==
    \E id \in LookupIds, store \in DocOutcomes :
        /\ result' = GetAuthor(id, store)
        /\ call' = LookupArgs("get_author", id, store)
        /\ repeated' = (call' = call)
        /\ UNCHANGED <<vector_cache, metrics_history, scores_history, lib>>

\* SpecHttp: lookup requests, one after the other
NextHttp == GetPublicationCall \/ GetAuthorCall
SpecHttp == Init /\ [][NextHttp]_vars

----------------------------------------------------------------------------
(* Vocabulary of the properties *)

IsCluster == call.op = "cluster_publications"
Returned == IsCluster /\ result.status = "ok"

\* ids listed in the members of some returned ClusterRecord
Members == UNION {SeqToSet(result.clusters[j].publications) : j \in 1..Len(result.clusters)}

UniqueIds(pubs) ==
    \A i, j \in 1..Len(pubs) : (i # j /\ pubs[i].id # EmptyId) => pubs[i].id # pubs[j].id

\* documents of the batch whose vector, as the engine holds it, is valid and non-zero
HasValidVector(d) ==
    d.id # EmptyId /\ d.id \in DOMAIN vector_cache /\ VecAny(vector_cache[d.id])
ValidCount == Cardinality({i \in 1..Len(call.publications) : HasValidVector(call.publications[i])})

\* documents of the batch whose own combined_embedding is a valid non-zero vector
ContentValid(d) ==
    d.id # EmptyId /\ ~ContentInvalid(d) /\ SquaredNorm(d.combined_embedding.elems) > 0
ContentValidCount ==
    Cardinality({i \in 1..Len(call.publications) : ContentValid(call.publications[i])})

NoiseCount == Cardinality({i \in 1..Len(result.labels) : result.labels[i] = -1})
Sizes == Tup([j \in 1..Len(result.clusters) |-> result.clusters[j].size])

\* position at which a label first appears in the label array
FirstPos(lab) == CHOOSE i \in 1..Len(result.labels) :
                    result.labels[i] = lab /\ \A j \in 1..(i - 1) : result.labels[j] # lab

SweepMethods == {"kmeans_adaptive", "hierarchical_adaptive", "auto_adaptive"}

----------------------------------------------------------------------------
(* Claims *)

\* C1: no document whose combined_embedding is absent, has NaN or has the wrong
\* length, and no document with an empty id, is listed in the members of a
\* returned cluster.
C1_InvalidNeverMember ==
    Returned =>
        \A i \in 1..Len(call.publications) :
            LET d == call.publications[i]
            IN  (d.id = EmptyId \/ ContentInvalid(d)) => d.id \notin Members

\* C2: with unique ids, the cluster sizes of a successful call add up to the
\* number of documents with a valid non-zero vector minus the number labelled -1.
C2_SizesAddUp ==
    (Returned /\ UniqueIds(call.publications)) => SumSeq(Sizes) = ValidCount - NoiseCount
C2_Witness ==
    /\ Returned /\ UniqueIds(call.publications)
    /\ NoiseCount > 0 /\ Len(result.clusters) > 0
    /\ ValidCount < Len(call.publications)

\* C3: with fewer than 3 documents carrying a valid non-zero vector the call
\* returns the structured error and does not raise.
C3_TooFewIsError ==
    (IsCluster /\ ContentValidCount < 3) => result.status = "error"

\* C4: a method string outside {auto, kmeans, hierarchical, hdbscan, adaptive}
\* does not make the dispatcher raise; a warning is logged and the labels are
\* those of a kmeans variant.
C4_UnknownFallsBack ==
    (IsCluster /\ result.status # "error" /\ call.method \notin KnownMethods) =>
        /\ result.status = "ok"
        /\ "Unknown clustering method" \in result.warnings
        /\ result.method \in {"kmeans_adaptive", "kmeans (PCA)"}

\* C5: a valid batch requested with an unknown method never reports zero
\* clusters: the cluster count is at least 1 and the cluster list is non-empty.
C5_UnknownNeverZero ==
    (Returned /\ call.method \notin KnownMethods) =>
        result.n_clusters >= 1 /\ Len(result.clusters) >= 1

\* C6: the cluster count returned by the sweep lies within the range that was
\* swept, and that range has its lower end strictly below its upper end.
C6_KWithinSweptRange ==
    call.op = "optimize_n_clusters" =>
        LET ks == scores_history.n_clusters_range
        IN  /\ ks[1] < ks[Len(ks)]
            /\ ks[1] <= result.n_clusters /\ result.n_clusters <= ks[Len(ks)]
C6_Witness ==
    /\ call.op = "optimize_n_clusters"
    /\ Len(scores_history.n_clusters_range) >= 3
    /\ result.n_clusters = scores_history.n_clusters_range[Len(scores_history.n_clusters_range)]
    /\ call.max_clusters > result.n_clusters

\* C7: the returned cluster records are in order of decreasing size.
C7_SizeDescending ==
    Returned => \A j \in 1..(Len(result.clusters) - 1) :
                    result.clusters[j].size >= result.clusters[j + 1].size
C7_Witness ==
    /\ Returned /\ Len(result.clusters) >= 3
    /\ \E j \in 1..(Len(result.clusters) - 1) :
          /\ result.clusters[j].size > result.clusters[j + 1].size
          /\ FirstPos(result.clusters[j].id) > FirstPos(result.clusters[j + 1].id)

\* C8 as stated: records of equal size are in order of increasing label.
C8_TiesByLabel ==
    Returned => \A j \in 1..(Len(result.clusters) - 1) :
                    result.clusters[j].size = result.clusters[j + 1].size
                        => result.clusters[j].id < result.clusters[j + 1].id

\* C8 amended: records of equal size are in the order in which their labels
\* first appear in the label array (the sort is stable).
C8_TiesByFirstAppearance ==
    Returned => \A j \in 1..(Len(result.clusters) - 1) :
                    result.clusters[j].size = result.clusters[j + 1].size
                        => FirstPos(result.clusters[j].id) < FirstPos(result.clusters[j + 1].id)
C8_Witness ==
    /\ Returned
    /\ \E j \in 1..(Len(result.clusters) - 1) :
          /\ result.clusters[j].size = result.clusters[j + 1].size
          /\ result.clusters[j].id > result.clusters[j + 1].id

\* C9: a call with the arguments of the call before it, on the same engine,
\* gives the same cluster count, the same labels and the same cluster order.
C9_RepeatIsIdentical ==
    [][(call'.op = "cluster_publications" /\ call' = call) =>
          /\ result'.status = result.status
          /\ result'.n_clusters = result.n_clusters
          /\ result'.ids = result.ids /\ result'.labels = result.labels
          /\ result'.clusters = result.clusters]_vars
C9_Witness ==
    /\ repeated /\ Returned /\ Len(result.clusters) >= 2
    /\ result.method \in SweepMethods

\* C10: a sweep table is attached to a result exactly when that call ran a
\* sweep, and then it is the table of that sweep.
C10_SweepTableIsOwn ==
    Returned =>
        /\ (result.quality.parameter_metrics # NoHistory) <=> (result.method \in SweepMethods)
        /\ result.method \in SweepMethods => result.quality.parameter_metrics = scores_history

\* C11: once the cache holds a vector for an id, no later call changes that
\* entry, and a get for any document with that id, whatever combined_embedding
\* it carries, returns the cached vector and leaves the cache as it is.
C11_CacheWrittenOnce ==
    [][\A id \in DOMAIN vector_cache :
          /\ id \in DOMAIN vector_cache'
          /\ vector_cache'[id] = vector_cache[id]
          /\ \A v \in RawVecs :
                GetPublicationVector(vector_cache, Doc(id, v)) =
                    [raised |-> FALSE, vec |-> vector_cache[id], cache |-> vector_cache]]_vars
\* the last call carried a document whose own vector differs from the cached one
C11_Witness ==
    /\ IsCluster
    /\ \E i \in 1..Len(call.publications) :
          LET d == call.publications[i]
          IN  /\ d.id \in DOMAIN vector_cache
              /\ d.combined_embedding.tag = "array"
              /\ ValidatedVector(d.combined_embedding) # vector_cache[d.id]
              /\ VecAny(ValidatedVector(d.combined_embedding))

\* C12: a get on an engine that has not cached the id never raises: for a
\* combined_embedding that is absent, of the wrong length, holds NaN or is no
\* array at all it returns and caches the zero vector, otherwise it returns
\* the vector divided by its norm (the vector itself when the norm is 0).
C12_GetNeverRaises ==
    IsCluster =>
        \A i \in 1..Len(call.publications) :
            LET d == call.publications[i]
                g == GetPublicationVector(<<>>, d)
            IN  /\ ~g.raised
                /\ ContentInvalid(d) => g.vec = Zeros
                /\ (ContentInvalid(d) /\ d.id # EmptyId) => g.cache[d.id] = Zeros
                /\ ~ContentInvalid(d) =>
                      /\ g.vec.num = d.combined_embedding.elems
                      /\ g.vec.den2 = Max2(1, SquaredNorm(d.combined_embedding.elems))

MaxAutoN == 151    \* largest batch size for which the auto choice is examined

\* what the claim says "auto" resolves to for n valid documents
AutoExpected(n) ==
    IF n < 15 THEN "hierarchical"
    ELSE IF n < 150 /\ lib.hdbscan THEN "hdbscan"
    ELSE "kmeans"

\* C13: "auto" resolves to hierarchical below 15 valid documents, to hdbscan
\* from 15 to 149 when the density library is installed and to kmeans when it
\* is not, and to kmeans from 150 on; a call with method "auto" runs the
\* method so chosen.
C13_AutoResolves ==
    /\ \A n \in 3..MaxAutoN : AutoMethodChoice(lib, n) = AutoExpected(n)
    /\ (Returned /\ call.method = "auto") =>
          result.method \in
            (CASE AutoExpected(result.num_publications) = "hierarchical"
                      -> {"hierarchical", "hierarchical_adaptive"}
               [] AutoExpected(result.num_publications) = "hdbscan" -> {"hdbscan"}
               [] OTHER -> {"kmeans (PCA)", "kmeans_adaptive"})
C13_Witness ==
    /\ Returned /\ call.method = "auto" /\ result.num_publications = 15
    /\ lib.hdbscan /\ result.method = "hdbscan"

\* the seed the metrics of the last call depended on
QualitySeed == FitSeed(lib, Matrix(vector_cache, result.ids))

\* C14: the quality report always carries the noise share, 1 minus the
\* fraction of points with a non-negative label; with fewer than 3 such points
\* or fewer than 2 distinct labels among them the silhouette is NaN, otherwise
\* it is the silhouette of those points alone (NaN only when the metric
\* rejects them).
C14_QualityOverNonNoise ==
    Returned =>
        LET kept == Masked(result.labels)
            q    == result.quality
        IN  /\ q.share_noise = [noise |-> NoiseCount, of |-> Len(result.labels)]
            /\ (Len(kept) < 3 \/ NumDistinct(kept) < 2) => q.silhouette.nan
            /\ ~(Len(kept) < 3 \/ NumDistinct(kept) < 2) =>
                  IF q.silhouette.nan THEN MetricRaises(kept)
                  ELSE q.silhouette.value = SilhouetteScore(QualitySeed, kept)
C14_Witness ==
    /\ Returned /\ NoiseCount > 0 /\ ~result.quality.silhouette.nan
    /\ NumDistinct(Masked(result.labels)) >= 2
    /\ SilhouetteScore(QualitySeed, Masked(result.labels))
          # SilhouetteScore(QualitySeed, result.labels)

\* C15: for a matrix of at most 50 columns optimize_pca_dimensions returns
\* the column count and the matrix itself and fits no projection, whatever the
\* number of rows, the variance threshold and max_dims.
C15_NoOpUpTo50 ==
    (call.op = "optimize_pca_dimensions" /\ call.n_features <= 50) =>
        result = PcaResult(FALSE, call.n_features,
                           PcaInput(call.n_samples, call.n_features), 0)
C15_Witness ==
    /\ call.op = "optimize_pca_dimensions" /\ call.n_features = 50
    /\ call.max_dims < call.n_samples /\ call.max_dims > 0
    /\ result.opt_dims = 50 /\ result.fits = 0

IsLookup == call.op \in {"get_publication", "get_author"}

\* the store answered that the id does not exist
LookupNotFound ==
    \/ call.op = "get_publication" /\ call.store = "no_hits"
    \/ call.op = "get_author" /\ call.store = "not_found"

\* the lookup failed for another reason
LookupFailed ==
    /\ IsLookup
    /\ call.store \in {"hit_without_source", "not_an_object", "http_error",
                       "connection_error", "bad_json"}

\* C16: a lookup of an id the store does not have is answered 404 with a
\* "not found" detail, never 500; a lookup that fails for any other reason is
\* answered 500.
C16_NotFoundIs404 ==
    /\ (IsLookup /\ LookupNotFound) =>
          /\ result.raised /\ result.status_code = 404
          /\ result.detail.kind = "not found"
    /\ LookupFailed => result.raised /\ result.status_code = 500

IsSweep == call.op = "optimize_n_clusters"
SweepSeed == FitSeed(lib, FillerMatrix(call.n))
SweptKs == scores_history.n_clusters_range

\* the labeling of candidate k: what its fit returned, zeros when the fit raised
RecordedLabels(k) ==
    IF FitCandidate(SweepSeed, call.n, k, call.method).raises THEN ZeroLabels(call.n)
    ELSE FitCandidate(SweepSeed, call.n, k, call.method).labels

\* C17: the list of recorded labelings has one entry per candidate k, in the
\* order of the score lists, also when a candidate failed and was scored with
\* sentinels; the labels returned are the entry of the chosen k.
C17_LabelsOfChosenK ==
    IsSweep =>
        /\ Len(result.labels_list) = Len(SweptKs)
        /\ Len(scores_history.silhouette) = Len(SweptKs)
        /\ \A i \in 1..Len(SweptKs) : result.labels_list[i] = RecordedLabels(SweptKs[i])
        /\ result.labels = RecordedLabels(result.n_clusters)
C17_Witness ==
    /\ IsSweep /\ Len(result.labels_list) = Len(SweptKs)
    /\ \E i \in 1..Len(SweptKs) :
          FitCandidate(SweepSeed, call.n, SweptKs[i], call.method).raises

IsSelect == call.op = "select_optimal"

\* C18: the chosen k is the smallest candidate whose adjusted score is the
\* maximum of the adjusted scores of the swept range.
C18_SmallestBestK ==
    (IsSelect \/ IsSweep) =>
        LET adj == scores_history.adjusted_scores
            idx == result.n_clusters - SweptKs[1] + 1
        IN  /\ idx \in 1..Len(adj)
            /\ \A m \in 1..Len(adj) : adj[m] <= adj[idx]
            /\ \A m \in 1..(idx - 1) : adj[m] < adj[idx]
C18_Witness ==
    /\ IsSelect
    /\ \E i, j \in 1..Len(scores_history.adjusted_scores) :
          /\ i < j /\ result.n_clusters = SweptKs[i]
          /\ scores_history.adjusted_scores[i] = scores_history.adjusted_scores[j]
          /\ scores_history.composite[i] < scores_history.composite[j]

\* 0.01 over the denominator of the recorded scores
PenaltyUnit == scores_history.denominator \div 100

\* C19 as stated: the adjusted score recorded for candidate k is
\* composite(k) - 0.01 * (k - minK), so that k = minK carries no penalty.
C19_PenaltyFromMinK ==
    IsSweep =>
        \A i \in 1..Len(SweptKs) :
            scores_history.adjusted_scores[i] =
                scores_history.composite[i] - (SweptKs[i] - SweptKs[1]) * PenaltyUnit

\* C19 amended: the adjusted score recorded for candidate k is
\* composite(k) - 0.01 * k.
C19_PenaltyIsK ==
    IsSweep =>
        \A i \in 1..Len(SweptKs) :
            scores_history.adjusted_scores[i] =
                scores_history.composite[i] - SweptKs[i] * PenaltyUnit
C19_Witness ==
    /\ IsSweep /\ SweptKs[1] >= 2 /\ Len(SweptKs) >= 3
    /\ scores_history.composite[1] > 0
    /\ scores_history.adjusted_scores[1] < scores_history.composite[1]

\* the recorded score lists of the last sweep and their spreads
SilSpread == MaxSeq(scores_history.silhouette) - MinSeq(scores_history.silhouette)
ChSpread  == MaxSeq(scores_history.calinski_harabasz) - MinSeq(scores_history.calinski_harabasz)
ChMax     == MaxSeq(scores_history.calinski_harabasz)
\* the normalised Davies-Bouldin scores, numerators over DbSpread
DbNum(i)  == NormDb(scores_history.davies_bouldin)[i]
DbSpread  == DbDen(scores_history.davies_bouldin)

\* min-max numerators, sentinel candidates at 0
SilMinMax(i) ==
    IF scores_history.silhouette[i] > SilSentinel
    THEN scores_history.silhouette[i] - MinSeq(scores_history.silhouette) ELSE 0
ChMinMax(i) ==
    scores_history.calinski_harabasz[i] - MinSeq(scores_history.calinski_harabasz)

\* C20 as stated: where the scores of the range differ, the composite of each
\* candidate is 0.6 * (sil - min)/(max - min) + 0.25 * (ch - min)/(max - min)
\* + 0.15 * normDB.  (The recorded composite is a numerator over
\* 100 * SilSpread * ChMax * DbSpread.)
C20_MinMaxComposite ==
    (IsSweep /\ SilSpread > 0 /\ ChSpread > 0) =>
        \A i \in 1..Len(SweptKs) :
            scores_history.composite[i] * ChSpread =
                ChMax * (60 * SilMinMax(i) * ChSpread * DbSpread
                         + 25 * ChMinMax(i) * SilSpread * DbSpread
                         + 15 * DbNum(i) * SilSpread * ChSpread)

\* C20 amended: silhouette is min-max normalised (1 for every non-sentinel
\* candidate when all silhouettes are equal), Calinski-Harabasz is divided by
\* its maximum over the range (0 when that is 0), and the composite is
\* 0.6 * normSilhouette + 0.25 * normCH + 0.15 * normDB.
C20_ChOverMaxComposite ==
    IsSweep =>
        LET sd == IF SilSpread > 0 THEN SilSpread ELSE 1
            cd == IF ChMax > 0 THEN ChMax ELSE 1
        IN  /\ scores_history.denominator = 100 * sd * cd * DbSpread
            /\ \A i \in 1..Len(SweptKs) :
                  scores_history.composite[i] =
                      60 * (IF SilSpread > 0 THEN SilMinMax(i)
                            ELSE IF scores_history.silhouette[i] > SilSentinel THEN 1 ELSE 0)
                         * cd * DbSpread
                      + 25 * (IF ChMax > 0 THEN scores_history.calinski_harabasz[i] ELSE 0)
                           * sd * DbSpread
                      + 15 * DbNum(i) * sd * cd
C20_Witness ==
    /\ IsSweep /\ Len(SweptKs) >= 3 /\ SilSpread > 0 /\ ChSpread > 0
    /\ MinSeq(scores_history.calinski_harabasz) > 0

\* C21: within one sweep a candidate with a strictly lower finite Davies-Bouldin
\* score than another candidate has a strictly higher normalised score, also
\* when other candidates carry the +inf sentinel; when every candidate carries
\* the sentinel all normalised scores are 0.
C21_DbInverted ==
    IsSweep =>
        /\ \A i, j \in 1..Len(SweptKs) :
              (scores_history.davies_bouldin[i] < scores_history.davies_bouldin[j]
               /\ scores_history.davies_bouldin[j] < Inf) => DbNum(i) > DbNum(j)
        /\ MinSeq(scores_history.davies_bouldin) = Inf =>
              \A i \in 1..Len(SweptKs) : DbNum(i) = 0

\* the fit of the i-th candidate of the last sweep
SweptFit(i) == FitCandidate(SweepSeed, call.n, SweptKs[i], call.method)
Degenerate(f) == f.raises \/ NumDistinct(f.labels) < 2
IsSentinelEntry(i) ==
    /\ scores_history.silhouette[i] = SilSentinel
    /\ scores_history.calinski_harabasz[i] = 0
    /\ scores_history.davies_bouldin[i] = Inf

\* C22: every candidate k of the swept range has exactly one entry in each of
\* the silhouette, CH and DB lists, and a candidate whose fit raises or whose
\* labeling has fewer than 2 distinct labels is recorded with the sentinels
\* (-1, 0, +inf); a failing candidate does not end the sweep.
C22_OneEntryPerCandidate ==
    IsSweep =>
        /\ SweptKs = RangeSeq(GuardedRange(call.n, call.min_clusters, call.max_clusters).min,
                              GuardedRange(call.n, call.min_clusters, call.max_clusters).max)
        /\ Len(scores_history.silhouette) = Len(SweptKs)
        /\ Len(scores_history.calinski_harabasz) = Len(SweptKs)
        /\ Len(scores_history.davies_bouldin) = Len(SweptKs)
        /\ \A i \in 1..Len(SweptKs) : Degenerate(SweptFit(i)) => IsSentinelEntry(i)
C22_Witness ==
    /\ IsSweep /\ Len(SweptKs) >= 3
    /\ SweptFit(1).raises /\ IsSentinelEntry(1)
    /\ ~SweptFit(2).raises /\ NumDistinct(SweptFit(2).labels) < 2 /\ IsSentinelEntry(2)
    /\ ~IsSentinelEntry(3)

IsRange == call.op = "adaptive_range"
\* the range before the guard: [max(2, min(kMax - 1, 3)), min(kMax, floor(sqrt(n)))]
FirstMinK == Max2(2, Min2(call.k_max - 1, 3))
FirstMaxK == Min2(call.k_max, ISqrt(call.n))

\* C23 as stated: the adaptive variant passes [max(2, min(kMax-1, 3)),
\* min(kMax, floor(sqrt(n)))], and when that range has min >= max it passes
\* (2, max(3, floor(n/5))) instead.
C23_RangeWithSelectorGuard ==
    IsRange =>
        result = IF FirstMinK >= FirstMaxK
                 THEN [min |-> 2, max |-> Max2(3, call.n \div 5)]
                 ELSE [min |-> FirstMinK, max |-> FirstMaxK]

\* C23 amended: when the first range has min >= max, the range passed is (2, 3).
C23_RangeWithOwnGuard ==
    IsRange =>
        result = IF FirstMinK >= FirstMaxK
                 THEN [min |-> 2, max |-> 3]
                 ELSE [min |-> FirstMinK, max |-> FirstMaxK]
C23_Witness ==
    /\ IsRange /\ FirstMinK >= FirstMaxK /\ call.n \div 5 > 3
    /\ result = [min |-> 2, max |-> 3]

\* a returned call of an explicit (non-adaptive) variant
IsExplicit == Returned /\ ~call.adaptive /\ call.method \in {"kmeans", "hierarchical"}
\* floor(sqrt(n / 2)): the largest j with 2 * j * j <= n
FloorSqrtHalf(n) == CHOOSE j \in 0..n : 2 * j * j <= n /\ 2 * (j + 1) * (j + 1) > n

C25_HdbscanCount ==
    /\ (Returned /\ result.method = "hdbscan") =>
          /\ result.n_clusters = Cardinality({x \in SeqToSet(result.labels) : x >= 0})
          /\ result.n_clusters = Len(result.clusters)
          /\ \A j \in 1..Len(result.clusters) :
                result.clusters[j].size >= Max2(call.min_cluster_size, 3)
    /\ (IsCluster /\ call.method = "hdbscan" /\ ~lib.hdbscan /\ ValidCount >= 3) =>
          /\ result.status = "ok"
          /\ result.method \in {"kmeans_adaptive", "kmeans (PCA)"}
          /\ "hdbscan not installed" \in result.warnings
C25_Witness ==
    /\ Returned /\ result.method = "hdbscan" /\ call.min_cluster_size = 1
    /\ -1 \in SeqToSet(result.labels) /\ result.n_clusters >= 2

IsPca == call.op = "optimize_pca_dimensions"
\* the components of the first fit and their cumulative explained variance
FittedComponents == Min2(Min2(call.n_samples, call.n_features), call.max_dims)
FittedVariance ==
    CumulativeVariance(lib, call.n_samples, call.n_features, FittedComponents)
Reaching == {j \in 1..FittedComponents : FittedVariance[j] >= call.variance_threshold}
SmallestReaching == CHOOSE j \in Reaching : \A i \in Reaching : j <= i

\* C26: for a call with more than 50 features that returns, some prefix of the
\* fitted components reaching the threshold, k = max(2, j) with j the smallest
\* number of leading components whose cumulative explained variance is >= the
\* threshold; the result is the projection to k columns if k is smaller than
\* the feature count, and the unchanged input otherwise.
C26_SmallestPrefix ==
    (IsPca /\ call.n_features > 50 /\ ~result.raised /\ Reaching # {}) =>
        IF Max2(2, SmallestReaching) < call.n_features
        THEN /\ result.opt_dims = Max2(2, SmallestReaching)
             /\ result.X_reduced =
                    Projected(PcaInput(call.n_samples, call.n_features),
                              Max2(2, SmallestReaching))
        ELSE /\ result.opt_dims = call.n_features
             /\ result.X_reduced = PcaInput(call.n_samples, call.n_features)
C26_Witness ==
    /\ IsPca /\ call.n_features > 50 /\ ~result.raised /\ Reaching # {}
    /\ SmallestReaching >= 3 /\ FittedVariance[SmallestReaching - 1] < call.variance_threshold
    /\ result.opt_dims = SmallestReaching

\* C27: for kmeans, hierarchical, adaptive and unknown-method requests with
\* kMax >= 2 the reported cluster count never exceeds the caller's kMax.
C27_CountWithinKMax ==
    (Returned /\ call.method \in {"kmeans", "hierarchical", "adaptive", "banana", "kmeans_fast"}
              /\ call.k_max >= 2) =>
        result.n_clusters <= call.k_max

\* C28: on the kmeans, hierarchical and adaptive paths the reported cluster
\* count equals the number of cluster records of the result, which is the
\* number of distinct labels of the returned assignment; also after a sweep in
\* which every candidate was scored with the sentinels.
C28_CountIsRecords ==
    (Returned /\ call.method \in {"kmeans", "hierarchical", "adaptive"}) =>
        /\ result.n_clusters = Len(result.clusters)
        /\ Len(result.clusters) = NumDistinct(result.labels)

\* a returned call that was dispatched to a fallback: hdbscan without the
\* library, or a method the dispatcher does not know
IsFallback ==
    /\ Returned
    /\ \/ call.method = "hdbscan" /\ ~lib.hdbscan
       \/ call.method \notin KnownMethods /\ ~StartsWithKmeans(call.method)
\* what the same engine, fresh, answers to method kmeans with adaptive=False
ExplicitKmeansResult ==
    ClusterPublications(<<>>, NoHistory, NoHistory, lib, call.publications, "kmeans",
                        call.k_max, call.min_cluster_size, FALSE).result

\* C29: with adaptive=False no sweep runs: the two fallbacks give the result of
\* method kmeans with adaptive=False (its labels, cluster count, clusters and
\* method label) and write no sweep history.
C29_FallbackKeepsExplicit ==
    (IsFallback /\ ~call.adaptive) =>
        /\ result.method = ExplicitKmeansResult.method
        /\ result.n_clusters = ExplicitKmeansResult.n_clusters
        /\ result.labels = ExplicitKmeansResult.labels
        /\ result.clusters = ExplicitKmeansResult.clusters
        /\ scores_history = NoHistory /\ metrics_history = NoHistory

\* C30: whenever the call returns a projection with k columns, k smaller than
\* the feature count, the first k components have cumulative explained variance
\* >= the threshold, also when no prefix of the fitted components reaches it.
C30_ProjectionReachesThreshold ==
    (IsPca /\ ~result.raised /\ result.opt_dims < call.n_features) =>
        CumulativeVariance(lib, call.n_samples, call.n_features,
                           result.opt_dims)[result.opt_dims] >= call.variance_threshold

====
